---- MODULE Spec2Model ----
(***************************************************************************)
(* DirectX12Intro: the bootstrap functions of main.cpp and Helpers.h.      *)
(*                                                                         *)
(* Each function of main.cpp is modelled statement by statement; pc is the *)
(* statement about to run.  The source has no WinMain, so a behaviour is   *)
(* one call of one function from the state the global initialisers leave.  *)
(*                                                                         *)
(* LONG, int and uint32_t are 32 bits wide in the build.  TLC's own        *)
(* integers are 32 bits wide, so the model keeps the same two's complement *)
(* arithmetic at LongBits bits; every input set is written relative to     *)
(* LongBits.                                                               *)
(***************************************************************************)
EXTENDS Integers, Sequences, FiniteSets, TLC

VARIABLES
    pc,              \* the statement about to run
    debugBuild,      \* _DEBUG defined and assert() compiled in
    g_UseWarp, g_ClientWidth, g_ClientHeight,
    \* ParseCommandLineArguments
    argc, argv, i,
    frees,           \* history: number of LocalFree(argv) calls made
    oobRead,         \* history: some argv[k] was read with k >= argc
    uafRead,         \* history: some argv[k] was read after LocalFree(argv)
    sawStored,       \* history: every read of argv[k], k < argc, has returned
                     \* the token CommandLineToArgvW stored there
    asFlag,          \* history: indices whose token matched a flag comparison
    asValue,         \* history: indices whose token was handed to wcstol
    \* CreateWindow
    width, height, screenWidth, screenHeight, windowRect,
    adj,             \* history: what AdjustWindowRect added on each side
    windowWidth, windowHeight, windowX, windowY, hWnd,
    ret,             \* what the caller of CreateWindow / GetAdapter receives
    \* GetAdapter, EnableDebugLayer, RegisterWindowClass
    useWarp,
    calls,           \* history: the steps taken, in order
    failedCall       \* history: the platform calls that reported failure

parseVars == <<argc, argv, i, frees, oobRead, uafRead, sawStored, asFlag,
              asValue>>
globalVars == <<g_UseWarp, g_ClientWidth, g_ClientHeight>>
windowVars == <<width, height, screenWidth, screenHeight, windowRect, adj,
                windowWidth, windowHeight, windowX, windowY, hWnd>>
vars == <<pc, debugBuild, globalVars, parseVars, windowVars, ret, useWarp,
          calls, failedCall>>

----------------------------------------------------------------------------
(* Bounds of the model *)

LongBits == 12
MaxArgs == 2

(* Program constants *)

DefaultClientWidth == 1280
DefaultClientHeight == 720

----------------------------------------------------------------------------
(* Integer types *)

RECURSIVE Pow2(_)
Pow2(n) == IF n = 0 THEN 1 ELSE 2 * Pow2(n - 1)

LONG_MAX == Pow2(LongBits - 1) - 1
LONG_MIN == 0 - Pow2(LongBits - 1)
UINT32_MAX == Pow2(LongBits) - 1

Long == LONG_MIN..LONG_MAX

\* the value a signed operation with exact result x leaves in a LONG or int:
\* the two's complement reading of the low LongBits bits of x
Wrap(x) == ((x - LONG_MIN) % Pow2(LongBits)) + LONG_MIN

\* conversion of a long to uint32_t: the value modulo 2^bits
ToUint32(x) == x % Pow2(LongBits)

\* static_cast<LONG>(uint32_t): the same bits read as a signed value
ToLong(u) == IF u > LONG_MAX THEN u - Pow2(LongBits) ELSE u

\* C++ integer division truncates toward zero
CDiv(a, b) == IF a >= 0 THEN a \div b ELSE 0 - ((0 - a) \div b)

Max(a, b) == IF a >= b THEN a ELSE b
Min(a, b) == IF a <= b THEN a ELSE b

----------------------------------------------------------------------------
(* Command-line tokens: wide strings, modelled as sequences of characters *)

TokW == <<"-", "w">>
TokWidth == <<"-", "-", "w", "i", "d", "t", "h">>
TokH == <<"-", "h">>
TokHeight == <<"-", "-", "h", "e", "i", "g", "h", "t">>
TokWarp == <<"-", "w", "a", "r", "p">>
TokWarpLong == <<"-", "-", "w", "a", "r", "p">>
Tok800 == <<"8", "0", "0">>
Tok600 == <<"6", "0", "0">>
TokMinus5 == <<"-", "5">>
TokFoo == <<"f", "o", "o">>
TokProg == <<"a", ".", "e", "x", "e">>

OptionTokens == {TokW, TokWidth, TokH, TokHeight, TokWarp, TokWarpLong,
                 Tok800, Tok600, TokMinus5, TokFoo}
Tokens == OptionTokens \cup {TokProg}

\* the outcome of dereferencing memory the program does not own
Fault == <<"#">>

Digits == {"0", "1", "2", "3", "4", "5", "6", "7", "8", "9"}

DigitVal(c) ==
    CASE c = "0" -> 0 [] c = "1" -> 1 [] c = "2" -> 2 [] c = "3" -> 3
      [] c = "4" -> 4 [] c = "5" -> 5 [] c = "6" -> 6 [] c = "7" -> 7
      [] c = "8" -> 8 [] c = "9" -> 9

RECURSIVE SkipSpace(_)
SkipSpace(s) ==
    IF s # <<>> /\ Head(s) \in {" ", "\t"} THEN SkipSpace(Tail(s)) ELSE s

\* the digits of s up to the first non-digit, accumulated in base 10 and
\* clamped at limit
RECURSIVE Accumulate(_, _, _)
Accumulate(s, acc, limit) ==
    IF s = <<>> \/ Head(s) \notin Digits
    THEN acc
    ELSE Accumulate(Tail(s), Min(limit, acc * 10 + DigitVal(Head(s))), limit)

\* ::wcstol(s, nullptr, 10): optional white space, optional sign, decimal
\* digits; 0 when there are no digits; LONG_MIN / LONG_MAX on overflow
wcstol(s) ==
    LET t == SkipSpace(s)
        neg == t # <<>> /\ Head(t) = "-"
        u == IF t # <<>> /\ Head(t) \in {"+", "-"} THEN Tail(t) ELSE t
    IN  IF neg THEN 0 - Accumulate(u, 0, 0 - LONG_MIN)
               ELSE Accumulate(u, 0, LONG_MAX)

\* ::wcscmp(a, b) == 0
wcsEqual(a, b) == a = b

IsWidthFlag(t) == wcsEqual(t, TokW) \/ wcsEqual(t, TokWidth)
IsHeightFlag(t) == wcsEqual(t, TokH) \/ wcsEqual(t, TokHeight)
IsWarpFlag(t) == wcsEqual(t, TokWarp) \/ wcsEqual(t, TokWarpLong)

RECURSIVE SeqsUpTo(_, _)
SeqsUpTo(S, n) ==
    IF n = 0 THEN {<<>>}
    ELSE LET shorter == SeqsUpTo(S, n - 1)
         IN  shorter \cup {Append(s, t) : s \in shorter, t \in S}

ExampleArgs == <<TokW, Tok800, TokH, Tok600, TokWarp>>

\* what CommandLineToArgvW(GetCommandLine(), &argc) can return: the program
\* name followed by the option tokens
CommandLines ==
    {<<TokProg>> \o s : s \in SeqsUpTo(OptionTokens, MaxArgs) \cup {ExampleArgs}}

----------------------------------------------------------------------------
Init ==
    /\ pc = "idle"
    /\ debugBuild \in BOOLEAN
    /\ g_UseWarp = FALSE
    /\ g_ClientWidth = DefaultClientWidth
    /\ g_ClientHeight = DefaultClientHeight
    /\ argc = 0
    /\ argv = <<>>
    /\ i = 0
    /\ frees = 0
    /\ oobRead = FALSE
    /\ uafRead = FALSE
    /\ sawStored = TRUE
    /\ asFlag = {}
    /\ asValue = {}
    /\ width = 0
    /\ height = 0
    /\ screenWidth = 0
    /\ screenHeight = 0
    /\ windowRect = [left |-> 0, top |-> 0, right |-> 0, bottom |-> 0]
    /\ adj = [left |-> 0, top |-> 0, right |-> 0, bottom |-> 0]
    /\ windowWidth = 0
    /\ windowHeight = 0
    /\ windowX = 0
    /\ windowY = 0
    /\ hWnd = 0
    /\ ret = 0
    /\ useWarp = FALSE
    /\ calls = <<>>
    /\ failedCall = {}

----------------------------------------------------------------------------
(* ParseCommandLineArguments *)

\* what reading argv[k] can yield: the token while k is inside the live
\* array; anything, or a fault, once the array is freed or k is past its end
ReadArgv(k) ==
    IF k < argc /\ frees = 0 THEN {argv[k + 1]} ELSE Tokens \cup {Fault}

\* reading argv[k] gave t, and k is past the end or t is the token stored
\* at argv[k]
Stored(k, t) == k >= argc \/ t = argv[k + 1]

ParseEnter ==
    /\ pc = "idle"
    /\ \E cl \in CommandLines :
         /\ argv' = cl
         /\ argc' = Len(cl)
    /\ i' = 0
    /\ pc' = "p_loop"
    /\ UNCHANGED <<debugBuild, globalVars, frees, oobRead, uafRead, sawStored,
                   asFlag, asValue, windowVars, ret, useWarp, calls,
                   failedCall>>

ParseLoopTest ==
    /\ pc = "p_loop"
    /\ pc' = IF i < argc THEN "p_width" ELSE "p_done"
    /\ UNCHANGED <<debugBuild, globalVars, parseVars, windowVars, ret,
                   useWarp, calls, failedCall>>

\* One of the three if statements of the loop body, at statement here and
\* followed by statement next: the width one, the height one, or else the
\* warp one.  The bodies of the first two read argv[++i].
ParseIf(here, next, isWidth, isHeight) ==
    /\ pc = here
    /\ \E t \in ReadArgv(i) :
         LET matched == IF isWidth THEN IsWidthFlag(t)
                        ELSE IF isHeight THEN IsHeightFlag(t)
                        ELSE IsWarpFlag(t)
             valued == isWidth \/ isHeight
         IN
         /\ oobRead' = (oobRead \/ i >= argc
                          \/ (t # Fault /\ matched /\ valued /\ i + 1 >= argc))
         /\ uafRead' = (uafRead \/ frees > 0)
         /\ IF t = Fault
            THEN /\ pc' = "fault"
                 /\ sawStored' = (sawStored /\ i >= argc)
                 /\ UNCHANGED <<i, globalVars, asFlag, asValue>>
            ELSE IF ~matched
            THEN /\ pc' = next
                 /\ sawStored' = (sawStored /\ Stored(i, t))
                 /\ UNCHANGED <<i, globalVars, asFlag, asValue>>
            ELSE IF ~valued
            THEN /\ g_UseWarp' = TRUE
                 /\ asFlag' = asFlag \cup {i}
                 /\ pc' = next
                 /\ sawStored' = (sawStored /\ Stored(i, t))
                 /\ UNCHANGED <<i, g_ClientWidth, g_ClientHeight, asValue>>
            ELSE \E v \in ReadArgv(i + 1) :
                 /\ i' = i + 1
                 /\ asFlag' = asFlag \cup {i}
                 /\ sawStored' = (sawStored /\ Stored(i, t)
                                     /\ Stored(i + 1, v))
                 /\ IF v = Fault
                    THEN /\ pc' = "fault"
                         /\ UNCHANGED <<globalVars, asValue>>
                    ELSE /\ pc' = next
                         /\ asValue' = asValue \cup {i + 1}
                         /\ g_ClientWidth' =
                              IF isWidth THEN ToUint32(wcstol(v))
                                         ELSE g_ClientWidth
                         /\ g_ClientHeight' =
                              IF isHeight THEN ToUint32(wcstol(v))
                                          ELSE g_ClientHeight
                         /\ UNCHANGED g_UseWarp
    /\ UNCHANGED <<debugBuild, argc, argv, frees, windowVars, ret, useWarp,
                   calls, failedCall>>

ParseIfWidth == ParseIf("p_width", "p_height", TRUE, FALSE)
ParseIfHeight == ParseIf("p_height", "p_warp", FALSE, TRUE)
ParseIfWarp == ParseIf("p_warp", "p_free", FALSE, FALSE)

\* ::LocalFree(argv), the last statement of the loop body.  Freeing the
\* array a second time is undefined: the call returns or the heap faults.
ParseLocalFree ==
    /\ pc = "p_free"
    /\ frees' = frees + 1
    /\ \/ pc' = "p_incr"
       \/ frees > 0 /\ pc' = "fault"
    /\ UNCHANGED <<debugBuild, globalVars, argc, argv, i, oobRead, uafRead,
                   sawStored, asFlag, asValue, windowVars, ret, useWarp,
                   calls, failedCall>>

\* the ++i of the for statement
ParseIncrement ==
    /\ pc = "p_incr"
    /\ i' = i + 1
    /\ pc' = "p_loop"
    /\ UNCHANGED <<debugBuild, globalVars, argc, argv, frees, oobRead,
                   uafRead, sawStored, asFlag, asValue, windowVars, ret,
                   useWarp, calls, failedCall>>

----------------------------------------------------------------------------
(* ThrowIfFailed (Helpers.h) *)

\* HRESULT values a platform call can return: S_OK, S_FALSE, E_NOINTERFACE,
\* E_FAIL
HResults == {0, 1, -2147467262, -2147467259}

\* the FAILED(hr) macro: the severity bit, i.e. the sign of the HRESULT
FAILED(hr) == hr < 0

\* ThrowIfFailed(hr) throws std::exception exactly when FAILED(hr)
ThrowIfFailed(hr) == FAILED(hr)

----------------------------------------------------------------------------
(* EnableDebugLayer *)

EnableDebugLayerEnter ==
    /\ pc = "idle"
    /\ pc' = IF debugBuild THEN "dl_get" ELSE "dl_done"
    /\ UNCHANGED <<debugBuild, globalVars, parseVars, windowVars, ret,
                   useWarp, calls, failedCall>>

\* ThrowIfFailed(D3D12GetDebugInterface(...)), then EnableDebugLayer()
EnableDebugLayerGet ==
    /\ pc = "dl_get"
    /\ \E hr \in HResults :
         /\ calls' = Append(calls, "D3D12GetDebugInterface")
         /\ failedCall' = IF FAILED(hr)
                          THEN failedCall \cup {"D3D12GetDebugInterface"}
                          ELSE failedCall
         /\ pc' = IF ThrowIfFailed(hr) THEN "thrown" ELSE "dl_enable"
    /\ UNCHANGED <<debugBuild, globalVars, parseVars, windowVars, ret,
                   useWarp>>

EnableDebugLayerEnable ==
    /\ pc = "dl_enable"
    /\ calls' = Append(calls, "EnableDebugLayer")
    /\ pc' = "dl_done"
    /\ UNCHANGED <<debugBuild, globalVars, parseVars, windowVars, ret,
                   useWarp, failedCall>>

----------------------------------------------------------------------------
(* RegisterWindowClass *)

RegisterWindowClassEnter ==
    /\ pc = "idle"
    /\ pc' = "rc_register"
    /\ UNCHANGED <<debugBuild, globalVars, parseVars, windowVars, ret,
                   useWarp, calls, failedCall>>

\* static ATOM atom = ::RegisterClassExW(&windowClass); 0 reports failure
RegisterClassExW ==
    /\ pc = "rc_register"
    /\ \E atom \in {0, 1} :
         /\ calls' = Append(calls, "RegisterClassExW")
         /\ failedCall' = IF atom = 0
                          THEN failedCall \cup {"RegisterClassExW"}
                          ELSE failedCall
         \* assert(atom > 0) calls abort() when assertions are compiled in
         /\ pc' = IF debugBuild /\ ~(atom > 0) THEN "aborted" ELSE "rc_done"
    /\ UNCHANGED <<debugBuild, globalVars, parseVars, windowVars, ret,
                   useWarp>>

----------------------------------------------------------------------------
(* CreateWindow *)

\* requested client sizes, as uint32_t
ClientSizes ==
    {0, 1, 600, DefaultClientHeight, 800, DefaultClientWidth,
     LONG_MAX - 10, LONG_MAX, LONG_MAX + 1, LONG_MAX + 100, UINT32_MAX - 100,
     UINT32_MAX}

\* GetSystemMetrics(SM_CXSCREEN / SM_CYSCREEN): 0 when the call fails
ScreenSizes == {<<0, 0>>, <<640, 480>>, <<1920, 1080>>}

\* the frame WS_OVERLAPPEDWINDOW puts around a client area, by system metrics
ChromeSizes ==
    {[left |-> 8, top |-> 31, right |-> 8, bottom |-> 8],
     [left |-> 3, top |-> 26, right |-> 3, bottom |-> 3]}

NoChrome == [left |-> 0, top |-> 0, right |-> 0, bottom |-> 0]

\* window handles: NULL and one created window
NullHandle == {0}
Handles == {0, 1}

\* a variant that takes the far edge for the extent
ExtentFarEdge(far, near) == far

\* windowRect.right - windowRect.left, windowRect.bottom - windowRect.top
Extent(far, near) == far - near

\* a variant that centres without the std::max clamp
CenteredUnclamped(d) == CDiv(d, 2)

\* std::max<int>(0, (screen - window) / 2), the subtraction having given d
Centered(d) == Max(0, CDiv(d, 2))

CreateWindowEnter ==
    /\ pc = "idle"
    /\ \E w \in ClientSizes, h \in ClientSizes :
         /\ width' = w
         /\ height' = h
    /\ pc' = "cw_metrics"
    /\ UNCHANGED <<debugBuild, globalVars, parseVars, screenWidth,
                   screenHeight, windowRect, adj, windowWidth, windowHeight,
                   windowX, windowY, hWnd, ret, useWarp, calls, failedCall>>

\* the two GetSystemMetrics calls and the windowRect initialiser
CreateWindowMetrics ==
    /\ pc = "cw_metrics"
    /\ \E s \in ScreenSizes :
         /\ screenWidth' = s[1]
         /\ screenHeight' = s[2]
    /\ windowRect' = [left |-> 0, top |-> 0,
                      right |-> ToLong(width), bottom |-> ToLong(height)]
    /\ calls' = Append(calls, "GetSystemMetrics")
    /\ pc' = "cw_adjust"
    /\ UNCHANGED <<debugBuild, globalVars, parseVars, width, height, adj,
                   windowWidth, windowHeight, windowX, windowY, hWnd, ret,
                   useWarp, failedCall>>

\* ::AdjustWindowRect(&windowRect, WS_OVERLAPPEDWINDOW, false): on success
\* the rectangle grows by the frame on each side, on failure it is left
\* alone; the BOOL it returns is dropped
AdjustWindowRect ==
    /\ pc = "cw_adjust"
    /\ calls' = Append(calls, "AdjustWindowRect")
    /\ \/ /\ failedCall' = failedCall \cup {"AdjustWindowRect"}
          /\ adj' = NoChrome
          /\ UNCHANGED windowRect
       \/ \E c \in ChromeSizes :
            /\ windowRect' = [left |-> Wrap(windowRect.left - c.left),
                              top |-> Wrap(windowRect.top - c.top),
                              right |-> Wrap(windowRect.right + c.right),
                              bottom |-> Wrap(windowRect.bottom + c.bottom)]
            /\ adj' = c
            /\ UNCHANGED failedCall
    /\ pc' = "cw_size"
    /\ UNCHANGED <<debugBuild, globalVars, parseVars, width, height,
                   screenWidth, screenHeight, windowWidth, windowHeight,
                   windowX, windowY, hWnd, ret, useWarp>>

CreateWindowSize ==
    /\ pc = "cw_size"
    /\ windowWidth' = Wrap(Extent(windowRect.right, windowRect.left))
    /\ windowHeight' = Wrap(Extent(windowRect.bottom, windowRect.top))
    /\ pc' = "cw_center"
    /\ UNCHANGED <<debugBuild, globalVars, parseVars, width, height,
                   screenWidth, screenHeight, windowRect, adj, windowX,
                   windowY, hWnd, ret, useWarp, calls, failedCall>>

CreateWindowCenter ==
    /\ pc = "cw_center"
    /\ windowX' = Centered(Wrap(screenWidth - windowWidth))
    /\ windowY' = Centered(Wrap(screenHeight - windowHeight))
    /\ pc' = "cw_create"
    /\ UNCHANGED <<debugBuild, globalVars, parseVars, width, height,
                   screenWidth, screenHeight, windowRect, adj, windowWidth,
                   windowHeight, hWnd, ret, useWarp, calls, failedCall>>

\* HWND hWnd = ::CreateWindowExW(...): NULL reports failure
CreateWindowExW ==
    /\ pc = "cw_create"
    /\ hWnd' \in Handles
    /\ calls' = Append(calls, "CreateWindowExW")
    /\ failedCall' = IF hWnd' \in NullHandle
                     THEN failedCall \cup {"CreateWindowExW"}
                     ELSE failedCall
    /\ pc' = "cw_end"
    /\ UNCHANGED <<debugBuild, globalVars, parseVars, width, height,
                   screenWidth, screenHeight, windowRect, adj, windowWidth,
                   windowHeight, windowX, windowY, ret, useWarp>>

\* The closing brace of CreateWindow: control flows off the end of a
\* function returning HWND, so the caller receives an indeterminate value.
CreateWindowEnd ==
    /\ pc = "cw_end"
    /\ ret' \in Handles \cup {2}
    /\ pc' = "cw_done"
    /\ UNCHANGED <<debugBuild, globalVars, parseVars, windowVars, useWarp,
                   calls, failedCall>>

----------------------------------------------------------------------------
(* GetAdapter *)

\* a variant with the two branches swapped
TakesWarpBranchSwapped(u) == ~u

\* if (useWarp) ... else ...
TakesWarpBranch(u) == u

GetAdapterEnter ==
    /\ pc = "idle"
    /\ useWarp' \in BOOLEAN
    /\ pc' = "ga_factory"
    /\ UNCHANGED <<debugBuild, globalVars, parseVars, windowVars, ret, calls,
                   failedCall>>

\* One ThrowIfFailed(<call>) statement of GetAdapter.
GetAdapterCall(here, name, next) ==
    /\ pc = here
    /\ \E hr \in HResults :
         /\ calls' = Append(calls, name)
         /\ failedCall' = IF FAILED(hr) THEN failedCall \cup {name}
                                        ELSE failedCall
         /\ pc' = IF ThrowIfFailed(hr) THEN "thrown" ELSE next
    /\ UNCHANGED <<debugBuild, globalVars, parseVars, windowVars, ret,
                   useWarp>>

CreateDXGIFactory2 == GetAdapterCall("ga_factory", "CreateDXGIFactory2", "ga_branch")

GetAdapterBranch ==
    /\ pc = "ga_branch"
    /\ pc' = IF TakesWarpBranch(useWarp) THEN "ga_warp" ELSE "ga_else"
    /\ UNCHANGED <<debugBuild, globalVars, parseVars, windowVars, ret,
                   useWarp, calls, failedCall>>

EnumWarpAdapter == GetAdapterCall("ga_warp", "EnumWarpAdapter", "ga_as")

AdapterAs == GetAdapterCall("ga_as", "As", "ga_end")

\* the empty else block, where hardware adapters would be enumerated
GetAdapterElse ==
    /\ pc = "ga_else"
    /\ calls' = Append(calls, "HardwareBranch")
    /\ pc' = "ga_end"
    /\ UNCHANGED <<debugBuild, globalVars, parseVars, windowVars, ret,
                   useWarp, failedCall>>

\* The closing brace of GetAdapter: no return statement, so the caller
\* receives an indeterminate ComPtr (null, the adapter, or garbage).
GetAdapterEnd ==
    /\ pc = "ga_end"
    /\ ret' \in {0, 1, 2}
    /\ pc' = "ga_done"
    /\ UNCHANGED <<debugBuild, globalVars, parseVars, windowVars, useWarp,
                   calls, failedCall>>

----------------------------------------------------------------------------
Next ==
    \/ ParseEnter
    \/ ParseLoopTest
    \/ ParseIfWidth
    \/ ParseIfHeight
    \/ ParseIfWarp
    \/ ParseLocalFree
    \/ ParseIncrement
    \/ EnableDebugLayerEnter
    \/ EnableDebugLayerGet
    \/ EnableDebugLayerEnable
    \/ RegisterWindowClassEnter
    \/ RegisterClassExW
    \/ CreateWindowEnter
    \/ CreateWindowMetrics
    \/ AdjustWindowRect
    \/ CreateWindowSize
    \/ CreateWindowCenter
    \/ CreateWindowExW
    \/ CreateWindowEnd
    \/ GetAdapterEnter
    \/ CreateDXGIFactory2
    \/ GetAdapterBranch
    \/ EnumWarpAdapter
    \/ AdapterAs
    \/ GetAdapterElse
    \/ GetAdapterEnd

Spec == Init /\ [][Next]_vars

----------------------------------------------------------------------------
(* Properties *)

IsPrefix(s, t) == Len(s) <= Len(t) /\ s = SubSeq(t, 1, Len(s))

IsNumber(t) == t # <<>> /\ \A k \in 1..Len(t) : t[k] \in Digits

RECURSIVE Decimal(_)
Decimal(t) ==
    IF t = <<>> THEN 0
    ELSE 10 * Decimal(SubSeq(t, 1, Len(t) - 1)) + DigitVal(t[Len(t)])

\* every -w/--width and -h/--height is followed by a number
RECURSIVE WellFormed(_)
WellFormed(s) ==
    IF s = <<>> THEN TRUE
    ELSE IF IsWidthFlag(Head(s)) \/ IsHeightFlag(Head(s))
    THEN Len(s) >= 2 /\ IsNumber(s[2]) /\ WellFormed(Tail(Tail(s)))
    ELSE WellFormed(Tail(s))

\* the options a well-formed token list asks for, starting from st
RECURSIVE Requested(_, _)
Requested(s, st) ==
    IF s = <<>> THEN st
    ELSE IF IsWidthFlag(Head(s))
    THEN Requested(Tail(Tail(s)), [st EXCEPT !.w = Decimal(s[2])])
    ELSE IF IsHeightFlag(Head(s))
    THEN Requested(Tail(Tail(s)), [st EXCEPT !.h = Decimal(s[2])])
    ELSE IF IsWarpFlag(Head(s))
    THEN Requested(Tail(s), [st EXCEPT !.warp = TRUE])
    ELSE Requested(Tail(s), st)

Defaults ==
    [w |-> DefaultClientWidth, h |-> DefaultClientHeight, warp |-> FALSE]

ParseEnded == pc \in {"p_done", "fault"}

\* C1: on every well-formed command line ParseCommandLineArguments ends with
\* the width and height that follow the last width and height flag and with
\* useWarp true iff a warp flag occurs; with no option tokens it ends with
\* the defaults 1280x720, useWarp false.
C1_ParsesOptions ==
    (ParseEnded /\ WellFormed(Tail(argv))) =>
        /\ pc = "p_done"
        /\ LET want == Requested(Tail(argv), Defaults)
           IN  /\ g_ClientWidth = want.w
               /\ g_ClientHeight = want.h
               /\ g_UseWarp = want.warp

\* C2: ParseCommandLineArguments only ever reads argv[k] with 0 <= k < argc,
\* also when a width or height flag is the last token.  Stated on the runs
\* in which every read so far returned the stored token, so that a read past
\* the end comes from the command line itself.
C2_ReadsInsideArgv == sawStored => ~oobRead

\* C3: LocalFree(argv) is called exactly once, after the loop has completed,
\* and argv is never read or freed again after it has been freed.
C3_FreedOnceAfterLoop ==
    /\ frees <= 1
    /\ ~uafRead
    /\ pc = "p_done" => frees = 1

AfterCenter == pc \in {"cw_create", "cw_end", "cw_done"}

CenterOf(screen, window) ==
    IF screen < window THEN 0 ELSE (screen - window) \div 2

\* C4 as stated: for every screen size and requested size the corner is
\* non-negative, 0 when the screen is smaller than the adjusted window and
\* (screen - window) / 2 otherwise.
C4_CenteredForEverySize ==
    AfterCenter =>
        /\ windowX >= 0
        /\ windowY >= 0
        /\ windowX = CenterOf(screenWidth, windowWidth)
        /\ windowY = CenterOf(screenHeight, windowHeight)

\* C4 (amended): the corner is non-negative for every screen size and
\* requested size; in each dimension where screen - window is representable
\* as an int it is 0 when the screen is smaller than the adjusted window and
\* (screen - window) / 2 otherwise.
C4_CenteredWhenRepresentable ==
    AfterCenter =>
        /\ windowX >= 0
        /\ windowY >= 0
        /\ (screenWidth - windowWidth) \in Long =>
               windowX = CenterOf(screenWidth, windowWidth)
        /\ (screenHeight - windowHeight) \in Long =>
               windowY = CenterOf(screenHeight, windowHeight)

\* C4 witness: a screen narrower than the adjusted window, so that x clamps
\* to 0, and taller than it, so that y is the centred offset
C4_Witness ==
    /\ AfterCenter
    /\ screenWidth > 0
    /\ screenWidth < windowWidth
    /\ windowX = 0
    /\ screenHeight > windowHeight
    /\ windowHeight > 0
    /\ windowY > 0

AfterSize == pc \in {"cw_center", "cw_create", "cw_end", "cw_done"}

\* C5 as stated: for every positive uint32_t width and height the window
\* extent is the requested size plus the frame AdjustWindowRect added.
C5_ExtentForEveryPositiveSize ==
    (AfterSize /\ width >= 1 /\ height >= 1) =>
        /\ windowWidth = width + adj.left + adj.right
        /\ windowHeight = height + adj.top + adj.bottom

\* C5 (amended): in each dimension, for a positive requested size whose sum
\* with the frame AdjustWindowRect added does not exceed LONG_MAX, the
\* window extent is exactly the requested size plus that frame.
C5_ExtentWhenRepresentable ==
    AfterSize =>
        /\ (width >= 1 /\ width + adj.left + adj.right <= LONG_MAX) =>
               windowWidth = width + adj.left + adj.right
        /\ (height >= 1 /\ height + adj.top + adj.bottom <= LONG_MAX) =>
               windowHeight = height + adj.top + adj.bottom

\* C5 witness: the default client size with a frame added on every side
C5_Witness ==
    /\ AfterSize
    /\ width = DefaultClientWidth
    /\ height = DefaultClientHeight
    /\ adj.left > 0
    /\ adj.top > adj.bottom
    /\ windowWidth = DefaultClientWidth + adj.left + adj.right
    /\ windowHeight = DefaultClientHeight + adj.top + adj.bottom

\* C6: whenever a platform call of RegisterWindowClass, CreateWindow,
\* GetAdapter or EnableDebugLayer reports failure, the function raises the
\* exception of ThrowIfFailed and runs no further setup step.
C6_FailureThrows == failedCall # {} => pc = "thrown"

WarpSteps == <<"CreateDXGIFactory2", "EnumWarpAdapter", "As">>

\* C7: GetAdapter(useWarp = true) takes only the steps factory creation,
\* EnumWarpAdapter and the upgrade to IDXGIAdapter4, in that order, and never
\* enters the hardware branch.
C7_WarpNeverEnumerates ==
    useWarp =>
        /\ IsPrefix(calls, WarpSteps)
        /\ pc # "ga_else"

\* C7 witness: the WARP path run to its end
C7_Witness ==
    /\ useWarp
    /\ pc = "ga_done"
    /\ calls = WarpSteps

\* C8: CreateWindow returns the handle CreateWindowExW created, and a null
\* handle from CreateWindowExW is never returned as if it were a success.
C8_ReturnsCreatedHandle ==
    pc = "cw_done" =>
        /\ ret = hWnd
        /\ hWnd \notin NullHandle

IsRecognized(t) == IsWidthFlag(t) \/ IsHeightFlag(t) \/ IsWarpFlag(t)

NoOptionRecognized ==
    /\ pc \notin {"idle"}
    /\ argc >= 1
    /\ \A k \in 2..argc : ~IsRecognized(argv[k])

\* C9: a token list of unrecognized tokens only leaves g_ClientWidth,
\* g_ClientHeight and g_UseWarp at their defaults and raises no error.
C9_UnrecognizedIgnored ==
    NoOptionRecognized =>
        /\ g_ClientWidth = DefaultClientWidth
        /\ g_ClientHeight = DefaultClientHeight
        /\ g_UseWarp = FALSE
        /\ pc # "fault"

\* C10: each token is interpreted at most once: a token consumed as the
\* value of a width or height flag is never also matched as a flag.  Stated
\* on the runs in which every read so far was inside argv and returned the
\* stored token.
C10_TokenInterpretedOnce ==
    (sawStored /\ ~oobRead) => asFlag \cap asValue = {}

====
